---- MODULE Spec2Model ----
(***************************************************************************)
(* PreprocessImage (examples/imagenet/ijulia-pretrained-predict/           *)
(* imagehelper.py) as a state machine: one action per statement of the     *)
(* function, a heap of flat buffers, and numpy arrays as strided views     *)
(* (buffer, shape, strides, offset, owndata) on that heap.                 *)
(*                                                                         *)
(* Numbers.  Pixel values are exact rationals with denominator 255, kept   *)
(* as their integer numerators: a float image holds n/255 (stored n), a    *)
(* uint8 image holds v = 255v/255 (stored 255*v).  skimage's conversion to *)
(* float divides a uint8 pixel by 255, which is exact here.                *)
(*                                                                         *)
(* Size.  The source resizes to 224 x 224; OutSize stands for that number  *)
(* and is scaled down so that every element of every array can be          *)
(* enumerated.  Nothing in the function depends on the magnitude of the    *)
(* target size; all formulas are stated in terms of OutSize.               *)
(***************************************************************************)
EXTENDS Integers, Sequences, FiniteSets, TLC

\* ---- bounds ------------------------------------------------------------
MaxDim == 3       \* largest height and width of an input image
MaxChan == 4      \* largest channel count of an input image
OutSize == 2      \* the side of the output (224 in the source)
MaxCalls == 2     \* calls of PreprocessImage made on the same input

\* ---- program constants -------------------------------------------------
ScaleFactor == 256

VARIABLES
    input,        \* what the caller passes: [shape, dtype, order, fill]
    arg,          \* the caller's ndarray object
    heap,         \* sequence of flat buffers; heap[arg.buf] is the caller's
    pc,           \* the statement PreprocessImage executes next
    img, short_egde, yy, xx, crop_img, resized_img, sample,   \* the locals
    stdout,       \* lines printed so far, each one the shape tuple printed
    outcome,      \* "running", "returned" or "raised"
    exc,          \* the exception raised: [type, at]
    result,       \* the ndarray returned to the caller
    calls,        \* number of calls started
    prev,         \* what the previous call returned, as the caller kept it
    scaled0,      \* history: sample as line 15 left it
    reordered0    \* history: sample as line 23 left it (before the swaps)

locals == <<img, short_egde, yy, xx, crop_img, resized_img, sample>>
hist == <<scaled0, reordered0>>
vars == <<input, arg, heap, pc, img, short_egde, yy, xx, crop_img,
          resized_img, sample, stdout, outcome, exc, result, calls, prev,
          scaled0, reordered0>>

\* ---- arithmetic helpers ------------------------------------------------
Min2(a, b) == IF a <= b THEN a ELSE b
Max2(a, b) == IF a >= b THEN a ELSE b

RECURSIVE Prod(_)
Prod(s) == IF Len(s) = 0 THEN 1 ELSE Head(s) * Prod(Tail(s))

RECURSIVE Dot(_, _)
Dot(i, s) == IF Len(i) = 0 THEN 0 ELSE Head(i) * Head(s) + Dot(Tail(i), Tail(s))

RECURSIVE MinOf(_)
MinOf(s) == IF Len(s) = 1 THEN s[1] ELSE Min2(Head(s), MinOf(Tail(s)))

\* ---- ndarray -----------------------------------------------------------
None == [buf |-> 0, shape |-> <<>>, strides |-> <<>>, off |-> 0,
         own |-> FALSE, dtype |-> "none"]
NoExc == [type |-> "none", at |-> "none"]
NoPrev == [outcome |-> "none", shape |-> <<>>, data |-> <<>>]

\* strides (in elements) of a C-contiguous / Fortran-contiguous array
CStrides(shape) ==
    [k \in 1..Len(shape) |-> Prod(SubSeq(shape, k + 1, Len(shape)))]
FStrides(shape) ==
    [k \in 1..Len(shape) |-> Prod(SubSeq(shape, 1, k - 1))]

\* all index tuples of an array of the given shape (0-based, as in numpy)
Indices(shape) ==
    IF Len(shape) = 0 THEN {<<>>}
    ELSE {i \in [1..Len(shape) -> 0..(Max2(MaxDim, Max2(MaxChan, OutSize)))] :
             \A k \in 1..Len(shape) : i[k] < shape[k]}

Size(a) == Prod(a.shape)
Offset(a, i) == a.off + Dot(i, a.strides)
Elem(h, a, i) == h[a.buf][Offset(a, i) + 1]

IsCContiguous(a) == Size(a) <= 1 \/ a.strides = CStrides(a.shape)
IsFContiguous(a) == Size(a) <= 1 \/ a.strides = FStrides(a.shape)

\* the flat buffer of a new array of this shape and these strides whose
\* element at index i is f[i]
Layout(shape, strides, f) ==
    [p \in 1..Prod(shape) |->
        f[CHOOSE i \in Indices(shape) : Dot(i, strides) = p - 1]]

\* allocation of the buffer of a new ndarray: always a fresh one
\* (AllocOver: the variant that writes over the newest existing buffer)
AllocOver(h, data) == [h EXCEPT ![Len(h)] = data]
Alloc(h, data) == Append(h, data)

\* the ndarray object that owns the buffer just allocated on heap h
NewArray(h, shape, strides, dtype) ==
    [buf |-> Len(h), shape |-> shape, strides |-> strides, off |-> 0,
     own |-> TRUE, dtype |-> dtype]

\* the layout numpy gives a result computed elementwise from a (order 'K'):
\* Fortran order for an array that is only Fortran-contiguous, else C order
KStrides(a) ==
    IF IsFContiguous(a) /\ ~IsCContiguous(a) THEN FStrides(a.shape)
    ELSE CStrides(a.shape)

\* the contents of an array in index order, as a caller comparing two
\* arrays with == would see them
Contents(h, a) == [i \in Indices(a.shape) |-> Elem(h, a, i)]

\* ---- the operations PreprocessImage applies ----------------------------

\* np.array(obj): a copy of obj in a buffer of its own
NpArray(h, a) ==
    LET st == KStrides(a)
        h2 == Alloc(h, Layout(a.shape, st, Contents(h, a)))
    IN  [heap |-> h2, arr |-> NewArray(h2, a.shape, st, a.dtype)]

\* min(img.shape[:2])   (ShortEdgeMax: the variant taking the longer edge)
ShortEdgeMax(shape) == -MinOf([k \in 1..Min2(2, Len(shape)) |-> -shape[k]])
ShortEdge(shape) == MinOf(SubSeq(shape, 1, Min2(2, Len(shape))))

\* int((n - s) / 2): true division, then truncation towards zero
\* (CenterOffsetCeil rounds the half up; CenterOffsetNoSub halves n itself)
CenterOffsetCeil(n, s) ==
    IF n - s >= 0 THEN (n - s + 1) \div 2 ELSE -((s - n) \div 2)
CenterOffsetNoSub(n, s) == n \div 2
CenterOffset(n, s) ==
    IF n - s >= 0 THEN (n - s) \div 2 ELSE -((s - n) \div 2)

\* a slice bound as Python normalises it against an axis of length n
SliceBound(i, n) == IF i < 0 THEN Max2(i + n, 0) ELSE Min2(i, n)

\* a[y0:y1, x0:x1]: a view on the same buffer; bounds past the edge are
\* clipped without error
Slice2(a, y0, y1, x0, x1) ==
    LET ya == SliceBound(y0, a.shape[1])
        yb == SliceBound(y1, a.shape[1])
        xa == SliceBound(x0, a.shape[2])
        xb == SliceBound(x1, a.shape[2])
    IN  [a EXCEPT !.shape = [k \in 1..Len(a.shape) |->
                               IF k = 1 THEN Max2(0, yb - ya)
                               ELSE IF k = 2 THEN Max2(0, xb - xa)
                               ELSE a.shape[k]],
                  !.off = a.off + ya * a.strides[1] + xa * a.strides[2],
                  !.own = FALSE]

\* skimage's conversion of the image to float before warping
ImgAsFloat(dtype, x) == IF dtype = "uint8" THEN x \div 255 ELSE x

\* transform.resize(a, (T, T)): a new float array of shape (T, T) + the
\* remaining axes of a.  Where the input already is T x T every output
\* pixel is the (float-converted) input pixel; elsewhere the interpolated
\* value is represented by the float-converted pixel at the scaled position.
Resize(h, a, T) ==
    LET shape == <<T, T>> \o SubSeq(a.shape, 3, Len(a.shape))
        src(i) == [i EXCEPT ![1] = (i[1] * a.shape[1]) \div T,
                            ![2] = (i[2] * a.shape[2]) \div T]
        h2 == Alloc(h, Layout(shape, CStrides(shape),
                        [i \in Indices(shape) |->
                            ImgAsFloat(a.dtype, Elem(h, a, src(i)))]))
    IN  [heap |-> h2, arr |-> NewArray(h2, shape, CStrides(shape), "float64")]

\* np.asarray(a) * k: asarray returns a itself, the product is a new array
Times(h, a, k) ==
    LET st == KStrides(a)
        h2 == Alloc(h, Layout(a.shape, st, [i \in Indices(a.shape) |-> Elem(h, a, i) * k]))
    IN  [heap |-> h2, arr |-> NewArray(h2, a.shape, st, a.dtype)]

\* the channel list of line 23
\* (BGRIdentity keeps the order; BGRClipped repeats channel 0)
BGRIdentity == <<0, 1, 2>>
BGRClipped == <<0, 0, 0>>
BGR == <<2, 1, 0>>

\* a[:, :, chans] raises IndexError unless a has a third axis that holds
\* every listed channel
CanTake(a, chans) ==
    /\ Len(a.shape) >= 3
    /\ \A k \in 1..Len(chans) : chans[k] < a.shape[3]

\* a[:, :, chans] (advanced indexing): a new array of shape
\* (rows, cols, len(chans)).  numpy builds the result with the indexed axis
\* first, shape (len(chans), rows, cols) in C order, and returns it with
\* that axis moved back to position 2, hence the strides (cols, 1, rows*cols)
\* (TakeChannelsAll keeps every channel; TakeChannelsCOrder lays the result
\* out in C order)
TakeChannelsAll(h, a, chans) ==
    LET shape == a.shape
        st == <<shape[2], 1, shape[1] * shape[2]>>
        h2 == Alloc(h, Layout(shape, st, Contents(h, a)))
    IN  [heap |-> h2, arr |-> NewArray(h2, shape, st, a.dtype)]
TakeChannelsCOrder(h, a, chans) ==
    LET shape == <<a.shape[1], a.shape[2], Len(chans)>>
        st == CStrides(shape)
        h2 == Alloc(h, Layout(shape, st,
                 [i \in Indices(shape) |->
                     Elem(h, a, <<i[1], i[2], chans[i[3] + 1]>>)]))
    IN  [heap |-> h2, arr |-> NewArray(h2, shape, st, a.dtype)]
TakeChannels(h, a, chans) ==
    LET shape == <<a.shape[1], a.shape[2], Len(chans)>>
        st == <<shape[2], 1, shape[1] * shape[2]>>
        h2 == Alloc(h, Layout(shape, st,
                 [i \in Indices(shape) |->
                     Elem(h, a, <<i[1], i[2], chans[i[3] + 1]>>)]))
    IN  [heap |-> h2, arr |-> NewArray(h2, shape, st, a.dtype)]

\* np.swapaxes(a, p, q), axes 0-based: a view with the two axes exchanged
\* (SwapAxesShapeOnly exchanges the extents but not the strides)
SwapAxesShapeOnly(a, p, q) ==
    [a EXCEPT !.shape = [k \in 1..Len(a.shape) |->
                            IF k = p + 1 THEN a.shape[q + 1]
                            ELSE IF k = q + 1 THEN a.shape[p + 1]
                            ELSE a.shape[k]],
              !.strides = CStrides([k \in 1..Len(a.shape) |->
                            IF k = p + 1 THEN a.shape[q + 1]
                            ELSE IF k = q + 1 THEN a.shape[p + 1]
                            ELSE a.shape[k]]),
              !.own = FALSE]
SwapAxes(a, p, q) ==
    [a EXCEPT !.shape = [k \in 1..Len(a.shape) |->
                            IF k = p + 1 THEN a.shape[q + 1]
                            ELSE IF k = q + 1 THEN a.shape[p + 1]
                            ELSE a.shape[k]],
              !.strides = [k \in 1..Len(a.strides) |->
                            IF k = p + 1 THEN a.strides[q + 1]
                            ELSE IF k = q + 1 THEN a.strides[p + 1]
                            ELSE a.strides[k]],
              !.own = FALSE]

\* a.resize(shape) in place: refuses an array that is not one contiguous
\* segment; refuses to change the element count of an array that does not
\* own its buffer; otherwise truncates or zero-pads the buffer and lays the
\* new shape over it with contiguous strides, whatever the old strides were
ResizeInPlace(h, a, shape) ==
    LET n == Prod(shape)
        fortran == IsFContiguous(a) /\ ~IsCContiguous(a)
        st == IF fortran THEN FStrides(shape) ELSE CStrides(shape)
    IN  IF ~(IsCContiguous(a) \/ IsFContiguous(a))
        THEN [ok |-> FALSE, heap |-> h, arr |-> a]
        ELSE IF n # Size(a) /\ ~a.own
        THEN [ok |-> FALSE, heap |-> h, arr |-> a]
        ELSE [ok |-> TRUE,
              heap |-> IF n = Size(a) THEN h
                       ELSE [h EXCEPT ![a.buf] =
                               [p \in 1..n |-> IF p <= Len(h[a.buf])
                                               THEN h[a.buf][p] ELSE 0]],
              arr |-> [a EXCEPT !.shape = shape, !.strides = st]]

\* the shape tuple print() shows on line 6
\* (PrintedShapeSpatial shows img.shape[:2] only)
PrintedShapeSpatial(a) == SubSeq(a.shape, 1, Min2(2, Len(a.shape)))
PrintedShape(a) == a.shape

\* ---- the caller's image ------------------------------------------------
Shapes ==
    {<<>>} \cup {<<h>> : h \in 1..MaxDim}
           \cup {<<h, w>> : h \in 1..MaxDim, w \in 1..MaxDim}
           \cup {<<h, w, c>> : h \in 1..MaxDim, w \in 1..MaxDim, c \in 1..MaxChan}

Inputs ==
    [shape : Shapes, dtype : {"float64", "uint8"}, order : {"C", "F"},
     fill : {"up", "down"}]

\* the pixel at index i of the caller's image: all pixels differ
InputValue(inp, i) ==
    LET lin == Dot(i, CStrides(inp.shape))
        v == IF inp.fill = "up" THEN 1 + lin ELSE Prod(inp.shape) - lin
    IN  IF inp.dtype = "uint8" THEN 255 * v ELSE v

InputStrides(inp) ==
    IF inp.order = "F" THEN FStrides(inp.shape) ELSE CStrides(inp.shape)

InputBuffer(inp) ==
    Layout(inp.shape, InputStrides(inp),
           [i \in Indices(inp.shape) |-> InputValue(inp, i)])

InputArray(inp) ==
    [buf |-> 1, shape |-> inp.shape, strides |-> InputStrides(inp),
     off |-> 0, own |-> TRUE, dtype |-> inp.dtype]

Init ==
    /\ input \in Inputs
    /\ arg = InputArray(input)
    /\ heap = <<InputBuffer(input)>>
    /\ pc = "copy"
    /\ img = None /\ crop_img = None /\ resized_img = None /\ sample = None
    /\ short_egde = -1 /\ yy = -1 /\ xx = -1
    /\ stdout = <<>>
    /\ outcome = "running" /\ exc = NoExc /\ result = None
    /\ calls = 1
    /\ prev = NoPrev
    /\ scaled0 = None /\ reordered0 = None

caller == <<input, arg, stdout, calls, prev>>

\* an exception leaves the function: nothing is returned
Raise(type, at) ==
    /\ pc' = "done"
    /\ outcome' = "raised"
    /\ exc' = [type |-> type, at |-> at]
    /\ result' = None

Goto(next) ==
    /\ pc' = next
    /\ UNCHANGED <<outcome, exc, result>>

\* line 5: img = np.array(img)
CopyInput ==
    /\ pc = "copy"
    /\ LET r == NpArray(heap, arg)
       IN  heap' = r.heap /\ img' = r.arr
    /\ Goto("print")
    /\ UNCHANGED <<caller, short_egde, yy, xx, crop_img, resized_img, sample,
                   hist>>

\* line 6: print("Original Image Shape: ", img.shape)
PrintShape ==
    /\ pc = "print"
    /\ stdout' = Append(stdout, PrintedShape(img))
    /\ Goto("edge")
    /\ UNCHANGED <<input, arg, calls, prev, heap, locals, hist>>

\* line 8: short_egde = min(img.shape[:2]); min of an empty tuple raises
MinEdge ==
    /\ pc = "edge"
    /\ IF Len(img.shape) = 0
       THEN Raise("ValueError", "edge") /\ UNCHANGED short_egde
       ELSE short_egde' = ShortEdge(img.shape) /\ Goto("offy")
    /\ UNCHANGED <<caller, heap, img, yy, xx, crop_img, resized_img, sample,
                   hist>>

\* line 9: yy = int((img.shape[0] - short_egde) / 2)
OffsetY ==
    /\ pc = "offy"
    /\ yy' = CenterOffset(img.shape[1], short_egde)
    /\ Goto("offx")
    /\ UNCHANGED <<caller, heap, img, short_egde, xx, crop_img, resized_img,
                   sample, hist>>

\* line 10: xx = int((img.shape[1] - short_egde) / 2); img.shape[1] raises
\* for an array of one dimension
OffsetX ==
    /\ pc = "offx"
    /\ IF Len(img.shape) < 2
       THEN Raise("IndexError", "offx") /\ UNCHANGED xx
       ELSE xx' = CenterOffset(img.shape[2], short_egde) /\ Goto("crop")
    /\ UNCHANGED <<caller, heap, img, short_egde, yy, crop_img, resized_img,
                   sample, hist>>

\* line 11: crop_img = img[yy : yy + short_egde, xx : xx + short_egde]
Crop ==
    /\ pc = "crop"
    /\ crop_img' = Slice2(img, yy, yy + short_egde, xx, xx + short_egde)
    /\ Goto("resize")
    /\ UNCHANGED <<caller, heap, img, short_egde, yy, xx, resized_img, sample,
                   hist>>

\* line 13: resized_img = transform.resize(crop_img, (224, 224))
ResizeStep ==
    /\ pc = "resize"
    /\ LET r == Resize(heap, crop_img, OutSize)
       IN  heap' = r.heap /\ resized_img' = r.arr
    /\ Goto("scale")
    /\ UNCHANGED <<caller, img, short_egde, yy, xx, crop_img, sample, hist>>

\* line 15: sample = np.asarray(resized_img) * 256
Scale ==
    /\ pc = "scale"
    /\ LET r == Times(heap, resized_img, ScaleFactor)
       IN  heap' = r.heap /\ sample' = r.arr /\ scaled0' = r.arr
    /\ Goto("reorder")
    /\ UNCHANGED <<caller, img, short_egde, yy, xx, crop_img, resized_img,
                   reordered0>>

\* line 23: sample = sample[:, :, [2,1,0]]
ChannelReorder ==
    /\ pc = "reorder"
    /\ IF CanTake(sample, BGR)
       THEN /\ LET r == TakeChannels(heap, sample, BGR)
               IN  heap' = r.heap /\ sample' = r.arr /\ reordered0' = r.arr
            /\ Goto("swap02")
       ELSE /\ Raise("IndexError", "reorder")
            /\ UNCHANGED <<heap, sample, reordered0>>
    /\ UNCHANGED <<caller, img, short_egde, yy, xx, crop_img, resized_img,
                   scaled0>>

\* line 25: sample = np.swapaxes(sample, 0, 2)
SwapAxes02 ==
    /\ pc = "swap02"
    /\ sample' = SwapAxes(sample, 0, 2)
    /\ Goto("swap12")
    /\ UNCHANGED <<caller, heap, img, short_egde, yy, xx, crop_img,
                   resized_img, hist>>

\* line 26: sample = np.swapaxes(sample, 1, 2)
SwapAxes12 ==
    /\ pc = "swap12"
    /\ sample' = SwapAxes(sample, 1, 2)
    /\ Goto("coerce")
    /\ UNCHANGED <<caller, heap, img, short_egde, yy, xx, crop_img,
                   resized_img, hist>>

\* line 28: sample.resize(3,224,224)
Coerce ==
    /\ pc = "coerce"
    /\ LET r == ResizeInPlace(heap, sample, <<3, OutSize, OutSize>>)
       IN  IF r.ok
           THEN heap' = r.heap /\ sample' = r.arr /\ Goto("return")
           ELSE Raise("ValueError", "coerce") /\ UNCHANGED <<heap, sample>>
    /\ UNCHANGED <<caller, img, short_egde, yy, xx, crop_img, resized_img,
                   hist>>

\* line 29: return sample
Return ==
    /\ pc = "return"
    /\ pc' = "done"
    /\ outcome' = "returned"
    /\ result' = sample
    /\ UNCHANGED <<caller, heap, locals, hist, exc>>

\* what the caller holds once a call is over
Kept ==
    IF outcome = "returned"
    THEN [outcome |-> "returned", shape |-> result.shape,
          data |-> Contents(heap, result)]
    ELSE [outcome |-> outcome, shape |-> <<>>, data |-> <<>>]

\* the caller calls PreprocessImage again on the same array; the locals of
\* the finished call are gone, the caller keeps what it got back
CallAgain ==
    /\ pc = "done"
    /\ calls < MaxCalls
    /\ calls' = calls + 1
    /\ prev' = Kept
    /\ heap' = SubSeq(heap, 1, 1)
    /\ pc' = "copy"
    /\ img' = None /\ crop_img' = None /\ resized_img' = None
    /\ sample' = None
    /\ short_egde' = -1 /\ yy' = -1 /\ xx' = -1
    /\ outcome' = "running" /\ exc' = NoExc /\ result' = None
    /\ scaled0' = None /\ reordered0' = None
    /\ UNCHANGED <<input, arg, stdout>>

Next ==
    \/ CopyInput
    \/ PrintShape
    \/ MinEdge
    \/ OffsetY
    \/ OffsetX
    \/ Crop
    \/ ResizeStep
    \/ Scale
    \/ ChannelReorder
    \/ SwapAxes02
    \/ SwapAxes12
    \/ Coerce
    \/ Return
    \/ CallAgain

Spec == Init /\ [][Next]_vars

TypeOK ==
    /\ pc \in {"copy", "print", "edge", "offy", "offx", "crop", "resize",
               "scale", "reorder", "swap02", "swap12", "coerce", "return",
               "done"}
    /\ outcome \in {"running", "returned", "raised"}
    /\ calls \in 1..MaxCalls

\* ---- the axis swaps on their own ---------------------------------------
\* lines 25-26 applied to an arbitrary array of three axes, of any extents
InitSwap ==
    /\ input \in {i \in Inputs : Len(i.shape) = 3}
    /\ arg = InputArray(input)
    /\ heap = <<InputBuffer(input)>>
    /\ pc = "swap02"
    /\ sample = arg /\ reordered0 = arg
    /\ img = None /\ crop_img = None /\ resized_img = None /\ scaled0 = None
    /\ short_egde = -1 /\ yy = -1 /\ xx = -1
    /\ stdout = <<>>
    /\ outcome = "running" /\ exc = NoExc /\ result = None
    /\ calls = 1
    /\ prev = NoPrev

NextSwap ==
    \/ SwapAxes02
    \/ SwapAxes12

SpecSwap == InitSwap /\ [][NextSwap]_vars

\* ---- properties --------------------------------------------------------
Rank == Len(input.shape)
Valid == Rank = 3 /\ input.shape[3] >= 3
Malformed == Rank < 3 \/ input.shape[3] < 3
OutShape == <<3, OutSize, OutSize>>
Cropped == pc \in {"resize", "scale", "reorder", "swap02", "swap12", "coerce",
                   "return", "done"}

\* C1: for every input of shape (H, W, C) with C >= 3 the call returns, and
\* the array it returns has shape exactly (3, OutSize, OutSize).
C1_OutputShape ==
    (pc = "done" /\ Valid) =>
        (outcome = "returned" /\ result.shape = OutShape)

C1_Witness ==
    /\ pc = "done" /\ outcome = "returned"
    /\ input.shape = <<3, 2, 4>>
    /\ result.shape = OutShape

\* C2: once the crop has run on an image of shape (H, W, C), short_egde is
\* min(H, W), the offsets are the floors of half the leftover, the window
\* lies inside the image, and crop_img has shape (short_egde, short_egde, C)
\* and holds exactly the pixels of that window.
C2_CropWindow ==
    (Cropped /\ Rank = 3) =>
        LET H == input.shape[1]
            W == input.shape[2]
            s == IF H <= W THEN H ELSE W
        IN  /\ short_egde = s
            /\ 2 * yy <= H - s /\ H - s < 2 * yy + 2
            /\ 2 * xx <= W - s /\ W - s < 2 * xx + 2
            /\ yy >= 0 /\ xx >= 0
            /\ yy + short_egde <= H /\ xx + short_egde <= W
            /\ crop_img.shape = <<s, s, input.shape[3]>>
            /\ \A i \in Indices(crop_img.shape) :
                   Elem(heap, crop_img, i) =
                       Elem(heap, arg, <<yy + i[1], xx + i[2], i[3]>>)

C2_Witness ==
    /\ pc = "resize"
    /\ input.shape = <<3, 2, 3>>
    /\ crop_img.shape = <<2, 2, 3>>

\* C3: for an input of shape (OutSize, OutSize, 3) on which the resize step
\* left every pixel as it was, out[c][h][w] = 256 * in[h][w][2 - c] for
\* every c, h, w, and the output has shape (3, OutSize, OutSize).
ResizeWasIdentity ==
    /\ resized_img.shape = crop_img.shape
    /\ Contents(heap, resized_img) = Contents(heap, crop_img)

C3_TargetSizeInput ==
    (pc = "done" /\ input.shape = <<OutSize, OutSize, 3>>
                /\ ResizeWasIdentity) =>
        /\ outcome = "returned"
        /\ result.shape = OutShape
        /\ \A c \in 0..2 : \A h \in 0..(OutSize - 1) : \A w \in 0..(OutSize - 1) :
               Elem(heap, result, <<c, h, w>>) =
                   256 * Elem(heap, arg, <<h, w, 2 - c>>)

C3_Witness ==
    /\ pc = "done" /\ outcome = "returned"
    /\ input.shape = <<OutSize, OutSize, 3>>
    /\ ResizeWasIdentity

\* C4: every call prints exactly one line; when it is printed none of the
\* crop, resize, scale, reorder and transpose steps has run; the line shows
\* the shape of the array the caller passed.
C4_Diagnostic ==
    /\ pc \in {"copy", "print"} =>
          /\ Len(stdout) = calls - 1
          /\ crop_img = None /\ resized_img = None /\ sample = None
    /\ pc \notin {"copy", "print"} =>
          /\ Len(stdout) = calls
          /\ stdout[calls] = arg.shape

C4_Witness ==
    /\ pc = "done" /\ calls = 2 /\ outcome = "returned"
    /\ stdout = <<input.shape, input.shape>>
    /\ input.shape = <<3, 2, 3>>

\* C5 as stated: a call on an array with fewer than 3 channels or fewer
\* than 3 dimensions completes and returns an array.
C5_Original ==
    (pc = "done" /\ Malformed) => outcome = "returned"

\* C5 as amended: a call on a non-empty array with fewer than 3 channels or
\* fewer than 3 dimensions ends in a raised exception and returns nothing: an
\* IndexError at the channel reorder for 2 dimensions or for 3 dimensions
\* with C < 3, an IndexError at line 10 for 1 dimension, a ValueError at
\* line 8 for 0 dimensions.
C5_MalformedRaises ==
    (pc = "done" /\ Malformed) =>
        /\ outcome = "raised"
        /\ result = None
        /\ Rank >= 2 => exc = [type |-> "IndexError", at |-> "reorder"]
        /\ Rank = 1 => exc = [type |-> "IndexError", at |-> "offx"]
        /\ Rank = 0 => exc = [type |-> "ValueError", at |-> "edge"]

C5_Witness ==
    /\ pc = "done" /\ outcome = "raised"
    /\ input.shape = <<3, 2, 2>>
    /\ exc.at = "reorder"

\* C6: the caller's array keeps its shape and every element throughout; a
\* returned array lives in a buffer other than the caller's; a second call
\* on the same input returns an array equal to the first.
C6_InputUntouched ==
    /\ arg = InputArray(input)
    /\ heap[arg.buf] = InputBuffer(input)
    /\ outcome = "returned" => result.buf # arg.buf
    /\ (pc = "done" /\ calls = 2) => Kept = prev

C6_Witness ==
    /\ pc = "done" /\ calls = 2
    /\ outcome = "returned" /\ prev.outcome = "returned"
    /\ Len(heap) > 1

\* C7: for an input of shape (H, W, C) with H = W and C >= 3, after the
\* crop both offsets are zero, short_egde is H, and crop_img equals the
\* input element for element.
C7_SquareNoOp ==
    (Cropped /\ Valid /\ input.shape[1] = input.shape[2]) =>
        /\ yy = 0 /\ xx = 0
        /\ short_egde = input.shape[1]
        /\ crop_img.shape = arg.shape
        /\ Contents(heap, crop_img) = Contents(heap, arg)

C7_Witness ==
    /\ pc = "resize"
    /\ input.shape = <<3, 3, 3>>
    /\ crop_img.shape = <<3, 3, 3>>

\* C8: the two swaps take an array t of shape (A, B, C) to an array u of
\* shape (C, A, B) with u[c][a][b] = t[a][b][c] for every index.
C8_Transpose ==
    pc = "coerce" =>
        LET t == reordered0
        IN  /\ sample.shape = <<t.shape[3], t.shape[1], t.shape[2]>>
            /\ \A i \in Indices(t.shape) :
                   Elem(heap, sample, <<i[3], i[1], i[2]>>) = Elem(heap, t, i)

C8_Witness ==
    /\ pc = "coerce"
    /\ reordered0.shape = <<3, 2, 4>>
    /\ sample.shape = <<4, 3, 2>>

\* C9: for every input with C >= 3 the array that reaches line 28 has shape
\* (3, OutSize, OutSize), 3 * OutSize * OutSize elements, and holds channels
\* 2, 1, 0 of the scaled image and no other; line 28 then succeeds and
\* changes neither the array nor any buffer.
C9_AtCoerce ==
    /\ sample.shape = OutShape
    /\ Size(sample) = 3 * OutSize * OutSize
    /\ scaled0.shape = <<OutSize, OutSize, input.shape[3]>>
    /\ \A i \in Indices(OutShape) :
           Elem(heap, sample, i) = Elem(heap, scaled0, <<i[2], i[3], 2 - i[1]>>)

C9_CoercionNoOp ==
    [][(pc = "coerce" /\ Valid) =>
          /\ C9_AtCoerce
          /\ pc' # "coerce" =>
                (pc' = "return" /\ sample' = sample /\ heap' = heap)]_vars

C9_Witness ==
    /\ pc = "return"
    /\ input.shape = <<3, 2, 4>>
    /\ sample.shape = OutShape

\* C10: for every H, W >= 1 one of the offsets is zero, the square has side
\* min(H, W), and along each axis the margin after the window exceeds the
\* margin before it by 0 or 1.
C10_Centred ==
    (pc = "crop" /\ Rank >= 2) =>
        LET H == input.shape[1]
            W == input.shape[2]
        IN  /\ yy = 0 \/ xx = 0
            /\ short_egde = H \/ short_egde = W
            /\ short_egde <= H /\ short_egde <= W
            /\ 0 <= (H - short_egde - yy) - yy
            /\ (H - short_egde - yy) - yy <= 1
            /\ 0 <= (W - short_egde - xx) - xx
            /\ (W - short_egde - xx) - xx <= 1

C10_Witness ==
    /\ pc = "crop"
    /\ input.shape = <<3, 2>> \/ input.shape = <<3, 2, 3>>
    /\ yy = 0 /\ xx = 0
    /\ short_egde = 2

====
